---- MODULE Spec2Model ----
(***************************************************************************)
(* The vsock packet pump and socket registry of src/executor/vsock.rs:     *)
(* VsockMap (bind / get_socket / get_mut_socket / remove_socket),          *)
(* WakerRegistration (register / wake), RawSocket, and one poll of the     *)
(* vsock_run task (process_packet callback, then the optional reply).      *)
(*                                                                         *)
(* Option<T> is modelled as a sequence of length at most one.              *)
(* Header fields are modelled by their native numeric value (to_ne /       *)
(* from_ne on a little-endian target); the enum decodings Op::try_from and *)
(* Type::try_from are modelled as partial maps from the wire code.         *)
(* All context ids of the model fit in 32 bits, so the try_into() of       *)
(* line 105 succeeds on every modelled packet.                             *)
(***************************************************************************)
EXTENDS Integers, Sequences, FiniteSets, TLC

VARIABLES port_map, old, driver, task, rx, tx, woken, ret, locks,
          registration, log, life, was

vars == <<port_map, old, driver, task, rx, tx, woken, ret, locks,
          registration, log, life, was>>

----------------------------------------------------------------------------
(* Bounds of the environment.                                              *)

\* Largest number of bytes a receive buffer holds in the model.
MaxBuf == 4

\* Largest number of bytes a receive buffer holds in the two-port model.
MaxBufMap == 1

\* Largest number of register calls on the WakerRegistration taken alone.
MaxCalls == 3

----------------------------------------------------------------------------
(* Option<T>                                                               *)

None == <<>>

Some(x) == <<x>>

----------------------------------------------------------------------------
(* Data model                                                              *)

VsockState == {"Listen", "ReceiveRequest", "Connected", "Connecting", "Shutdown"}

RAW_SOCKET_BUFFER_SIZE == 256 * 1024

\* WakerRegistration::new
WakerRegistration_new == None

\* A waker is a handle h; handles h and h + 10 are two handles of one task.
task_of(h) == h % 10

\* Waker::will_wake: both wakers wake the same task.
will_wake(w2, w) == task_of(w2) = task_of(w)

\* register without the will_wake shortcut: the new waker is always cloned
\* into the slot.
register_always(waker, w) == Some(w)

\* WakerRegistration::register: the new contents of the slot.
register(waker, w) ==
    IF waker # None /\ will_wake(waker[1], w)
    THEN waker
    ELSE Some(w)

\* wake with as_ref() in place of take(): the waker stays in the slot.
wake_keep(waker) == [waker |-> waker, woken |-> waker]

\* WakerRegistration::wake: the slot is taken; the waker taken (if any) is woken.
wake(waker) == [waker |-> None, woken |-> waker]

\* RawSocket::new
RawSocket_new(state) ==
    [remote_cid  |-> 0,
     remote_port |-> 0,
     state       |-> state,
     waker       |-> WakerRegistration_new,
     buffer      |-> <<>>]

\* VsockMap::new
VsockMap_new == [q \in {} |-> RawSocket_new("Listen")]

\* bind with BTreeMap::insert in place of try_insert: an occupied entry is
\* replaced by a fresh socket before the error is reported.
bind_insert(map, port) ==
    [map |-> [q \in DOMAIN map \cup {port} |->
                IF q = port THEN RawSocket_new("Listen") ELSE map[q]],
     res |-> IF port \in DOMAIN map THEN "EADDRINUSE" ELSE "Ok"]

\* VsockMap::bind: BTreeMap::try_insert keeps an occupied entry and fails.
bind(map, port) ==
    IF port \in DOMAIN map
    THEN [map |-> map, res |-> "EADDRINUSE"]
    ELSE [map |-> map @@ (port :> RawSocket_new("Listen")), res |-> "Ok"]

\* VsockMap::get_socket
get_socket(map, port) ==
    IF port \in DOMAIN map THEN Some(map[port]) ELSE None

\* VsockMap::get_mut_socket: the entry a mutable borrow refers to, if any.
get_mut_socket(map, port) ==
    IF port \in DOMAIN map THEN Some(map[port]) ELSE None

\* remove_socket with BTreeMap::clear in place of remove.
remove_socket_clear(map, port) ==
    [q \in {} |-> map[q]]

\* VsockMap::remove_socket
remove_socket(map, port) ==
    [q \in DOMAIN map \ {port} |-> map[q]]

----------------------------------------------------------------------------
(* Decoding and encoding of the header enums (virtio::vsock::{Op, Type})   *)

\* Op::try_from(header.op.to_ne())
Op_try_from(n) ==
    CASE n = 1 -> Some("Request")
      [] n = 2 -> Some("Response")
      [] n = 3 -> Some("Rst")
      [] n = 4 -> Some("Shutdown")
      [] n = 5 -> Some("Rw")
      [] n = 6 -> Some("CreditUpdate")
      [] n = 7 -> Some("CreditRequest")
      [] OTHER -> None

\* Type::try_from(header.type_.to_ne())
Type_try_from(n) ==
    CASE n = 1 -> Some("Stream")
      [] n = 2 -> Some("Seqpacket")
      [] OTHER -> None

\* le16::from_ne(Op::CreditUpdate.into()) and le16::from_ne(Op::Rst.into())
Op_into(op) ==
    CASE op = "Request"       -> 1
      [] op = "Response"      -> 2
      [] op = "Rst"           -> 3
      [] op = "Shutdown"      -> 4
      [] op = "Rw"            -> 5
      [] op = "CreditUpdate"  -> 6
      [] op = "CreditRequest" -> 7

----------------------------------------------------------------------------
(* The process_packet callback of vsock_run, rule by rule.  Each rule maps *)
(* the socket found at the destination port to the callback's outcome:     *)
(*   raw     the socket afterwards                                         *)
(*   woken   the wakers woken (at most one)                                *)
(*   hdr     Option<Hdr>: the header remembered for the reply              *)
(*   fwd_cnt Option<u32>: the forward count captured for the reply         *)

\* First branch condition without the test of the socket's state.
is_request_any_state(raw, op, type_) ==
    op = "Request" /\ type_ = "Stream"

\* First branch condition without the test of the socket type.
is_request_any_type(raw, op, type_) ==
    op = "Request" /\ raw.state = "Listen"

\* First branch condition (line 102).
is_request(raw, op, type_) ==
    op = "Request" /\ raw.state = "Listen" /\ type_ = "Stream"

\* First branch body recording the packet's destination port as the peer's.
on_request_dst_port(raw, header) ==
    LET w == wake(raw.waker)
    IN  [raw     |-> [raw EXCEPT !.state = "ReceiveRequest",
                                 !.remote_cid = header.src_cid,
                                 !.remote_port = header.dst_port,
                                 !.waker = w.waker],
         woken   |-> w.woken,
         hdr     |-> None,
         fwd_cnt |-> None]

\* First branch body (lines 104-107).
on_request(raw, header) ==
    LET w == wake(raw.waker)
    IN  [raw     |-> [raw EXCEPT !.state = "ReceiveRequest",
                                 !.remote_cid = header.src_cid,
                                 !.remote_port = header.src_port,
                                 !.waker = w.waker],
         woken   |-> w.woken,
         hdr     |-> None,
         fwd_cnt |-> None]

\* Second branch condition without the test of the operation.
is_data_any_op(raw, op, type_) ==
    /\ raw.state = "Connected" \/ raw.state = "Shutdown"
    /\ type_ = "Stream"

\* Second branch condition (lines 108-111).
is_data(raw, op, type_) ==
    /\ raw.state = "Connected" \/ raw.state = "Shutdown"
    /\ type_ = "Stream"
    /\ op = "Rw"

\* Second branch body putting the payload in front of the buffered bytes.
on_data_prepend(raw, data) ==
    LET w == wake(raw.waker)
    IN  [raw     |-> [raw EXCEPT !.buffer = data \o raw.buffer,
                                 !.waker = w.waker],
         woken   |-> w.woken,
         hdr     |-> None,
         fwd_cnt |-> None]

\* Second branch body (lines 113-114).
on_data(raw, data) ==
    LET w == wake(raw.waker)
    IN  [raw     |-> [raw EXCEPT !.buffer = raw.buffer \o data,
                                 !.waker = w.waker],
         woken   |-> w.woken,
         hdr     |-> None,
         fwd_cnt |-> None]

\* Third branch waking the waker, as the two branches before it do.
on_credit_update_wake(raw) ==
    LET w == wake(raw.waker)
    IN  [raw     |-> [raw EXCEPT !.waker = w.waker],
         woken   |-> w.woken,
         hdr     |-> None,
         fwd_cnt |-> None]

\* Third branch (lines 115-116): only a debug! line.
on_credit_update(raw) ==
    [raw |-> raw, woken |-> <<>>, hdr |-> None, fwd_cnt |-> None]

\* Fourth branch waking the waker, as the first two branches do.
on_shutdown_wake(raw) ==
    LET w == wake(raw.waker)
    IN  [raw     |-> [raw EXCEPT !.state = "Shutdown", !.waker = w.waker],
         woken   |-> w.woken,
         hdr     |-> None,
         fwd_cnt |-> None]

\* Fourth branch (lines 117-118).
on_shutdown(raw) ==
    [raw     |-> [raw EXCEPT !.state = "Shutdown"],
     woken   |-> <<>>,
     hdr     |-> None,
     fwd_cnt |-> None]

\* Last branch capturing the forward count for every operation.
on_other_any_op(raw, op, header) ==
    [raw     |-> raw,
     woken   |-> <<>>,
     hdr     |-> Some(header),
     fwd_cnt |-> Some(Len(raw.buffer))]

\* Last branch reporting the free space of the buffer, not its length.
on_other_free_space(raw, op, header) ==
    [raw     |-> raw,
     woken   |-> <<>>,
     hdr     |-> Some(header),
     fwd_cnt |-> IF op = "CreditRequest"
                 THEN Some(RAW_SOCKET_BUFFER_SIZE - Len(raw.buffer))
                 ELSE None]

\* Last branch (lines 119-124).
on_other(raw, op, header) ==
    [raw     |-> raw,
     woken   |-> <<>>,
     hdr     |-> Some(header),
     fwd_cnt |-> IF op = "CreditRequest" THEN Some(Len(raw.buffer)) ELSE None]

\* The if / else-if chain of lines 102-124 on the socket found.
dispatch(raw, op, type_, header, data) ==
    IF is_request(raw, op, type_) THEN on_request(raw, header)
    ELSE IF is_data(raw, op, type_) THEN on_data(raw, data)
    ELSE IF op = "CreditUpdate" THEN on_credit_update(raw)
    ELSE IF op = "Shutdown" THEN on_shutdown(raw)
    ELSE on_other(raw, op, header)

\* The lookup and dispatch writing the outcome to every socket of the map.
on_socket_every_entry(map, op, type_, header, data) ==
    LET port == header.dst_port
        found == get_mut_socket(map, port)
    IN  IF found # None
        THEN LET r == dispatch(found[1], op, type_, header, data)
             IN  [map     |-> [q \in DOMAIN map |-> r.raw],
                  woken   |-> r.woken,
                  hdr     |-> r.hdr,
                  fwd_cnt |-> r.fwd_cnt,
                  panic   |-> FALSE]
        ELSE [map |-> map, woken |-> <<>>, hdr |-> None, fwd_cnt |-> None,
              panic |-> FALSE]

\* Lines 99-125: lock the map, look the port up, dispatch if a socket is found.
\* Nothing happens when get_mut_socket returns None.
on_socket(map, op, type_, header, data) ==
    LET port == header.dst_port
        found == get_mut_socket(map, port)
    IN  IF found # None
        THEN LET r == dispatch(found[1], op, type_, header, data)
             IN  [map     |-> [map EXCEPT ![port] = r.raw],
                  woken   |-> r.woken,
                  hdr     |-> r.hdr,
                  fwd_cnt |-> r.fwd_cnt,
                  panic   |-> FALSE]
        ELSE [map |-> map, woken |-> <<>>, hdr |-> None, fwd_cnt |-> None,
              panic |-> FALSE]

\* The whole callback (lines 95-126).  The two unwrap() calls of lines 96 and
\* 98 panic on a code that does not decode, before the map is locked.
callback(map, header, data) ==
    LET op == Op_try_from(header.op)
        type_ == Type_try_from(header.type_)
    IN  IF op = None \/ type_ = None
        THEN [map |-> map, woken |-> <<>>, hdr |-> None, fwd_cnt |-> None,
              panic |-> TRUE]
        ELSE on_socket(map, op[1], type_[1], header, data)

\* The reply with the length field copied from the remembered header.
response_copied_len(hdr, fwd_cnt) ==
    [src_cid   |-> hdr.dst_cid,
     dst_cid   |-> hdr.src_cid,
     src_port  |-> hdr.dst_port,
     dst_port  |-> hdr.src_port,
     len       |-> hdr.len,
     type_     |-> hdr.type_,
     op        |-> IF fwd_cnt # None THEN Op_into("CreditUpdate") ELSE Op_into("Rst"),
     fwd_cnt   |-> IF fwd_cnt # None THEN fwd_cnt[1] ELSE 0,
     flags     |-> 0,
     buf_alloc |-> RAW_SOCKET_BUFFER_SIZE]

\* The reply written by the send_packet callback (lines 130-148).
response(hdr, fwd_cnt) ==
    [src_cid   |-> hdr.dst_cid,
     dst_cid   |-> hdr.src_cid,
     src_port  |-> hdr.dst_port,
     dst_port  |-> hdr.src_port,
     len       |-> 0,
     type_     |-> hdr.type_,
     op        |-> IF fwd_cnt # None THEN Op_into("CreditUpdate") ELSE Op_into("Rst"),
     fwd_cnt   |-> IF fwd_cnt # None THEN fwd_cnt[1] ELSE 0,
     flags     |-> 0,
     buf_alloc |-> RAW_SOCKET_BUFFER_SIZE]

\* Lines 128-150: a reply is sent iff a header was remembered.
send_reply(hdr, fwd_cnt) ==
    IF hdr # None THEN <<response(hdr[1], fwd_cnt)>> ELSE <<>>

\* A call into the map from outside the pump: VSOCK_MAP is an
\* InterruptTicketMutex, locked for the call and released after it.
map_events == <<"map.lock", "map.unlock">>

\* The events of a poll that sends its reply while the callback still holds
\* the map.
poll_events_reply_in_callback(r) ==
    <<"driver.lock">>
    \o (IF r.panic
        THEN <<>>
        ELSE <<"map.lock">>
             \o (IF r.hdr # None THEN <<"send_packet">> ELSE <<>>)
             \o <<"map.unlock", "driver.unlock">>)

\* The events of a poll whose callback returned r (lines 91-152): the driver
\* is locked (91); the callback locks the map (99) after the two unwrap()
\* calls and its guard is dropped when the callback returns (126); the reply,
\* if any, is sent (129); the driver guard is dropped when the closure
\* returns (152).  A panic stops the poll where it is.
poll_events(r) ==
    <<"driver.lock">>
    \o (IF r.panic
        THEN <<>>
        ELSE <<"map.lock", "map.unlock">>
             \o (IF r.hdr # None THEN <<"send_packet">> ELSE <<>>)
             \o <<"driver.unlock">>)

----------------------------------------------------------------------------
(* Inputs of the model                                                     *)

\* Local ports of the two-port model.
Ports == {1234, 1235}

\* Tasks that can register a waker on a socket.
Wakers == {1, 2}

\* Handles registered on the WakerRegistration taken alone: 1 and 11 wake
\* task 1, 2 wakes task 2.
Handles == {1, 2, 11}

\* Wire codes of the operation field: 1..7 decode, 0 does not.
OpCodes == 0 .. 7

\* Wire codes of the socket type field: 1 and 2 decode, 0 does not.
TypeCodes == 0 .. 2

\* (context id, port) of the peers that send packets.
Peers == {<<2, 5>>, <<7, 6>>}

\* Payloads carried by Rw packets.
Payloads == {<<65, 66>>, <<67, 68>>}

\* An inbound packet: header and payload slice, as handed to the callback.
Packet(peer, port, type_, op, data) ==
    [header |-> [src_cid   |-> peer[1],
                 dst_cid   |-> 3,
                 src_port  |-> peer[2],
                 dst_port  |-> port,
                 len       |-> Len(data),
                 type_     |-> type_,
                 op        |-> op,
                 flags     |-> 0,
                 buf_alloc |-> 4096,
                 fwd_cnt   |-> 9],
     data   |-> data]

\* Every packet sent to port 1234 in the one-socket model: connection
\* requests of both peers, every other operation code of the first peer,
\* each with every type code.
Packets ==
    { Packet(peer, 1234, type_, 1, <<>>) : peer \in Peers, type_ \in TypeCodes }
    \cup
    { Packet(<<2, 5>>, 1234, type_, op, <<>>) :
        type_ \in TypeCodes, op \in OpCodes \ {1, 5} }
    \cup
    { Packet(<<2, 5>>, 1234, type_, 5, data) :
        type_ \in TypeCodes, data \in Payloads }

\* The packets of the two-port model: stream packets of one peer.
PacketsMap ==
    { Packet(<<2, 5>>, port, 1, op, <<>>) : port \in Ports, op \in {1, 4, 7} }
    \cup
    { Packet(<<2, 5>>, port, 1, 5, <<65>>) : port \in Ports }

----------------------------------------------------------------------------
(* State                                                                   *)
(*   port_map  VSOCK_MAP.port_map: port -> RawSocket                       *)
(*   old       port_map as it was before the latest step                   *)
(*   driver    whether hardware::get_vsock_driver() returns a driver       *)
(*   task      the vsock_run task: "Pending", "Ready" or "Panicked"        *)
(*   rx        the packet handed to the callback by the latest step        *)
(*   tx        the replies handed to send_packet by the latest step        *)
(*   woken     the wakers woken by the latest step                         *)
(*   ret       the latest call and what it returned                        *)
(*   locks     the lock, unlock and transmit events of the latest step, in *)
(*             program order                                               *)
(*   life      for each port, the calls made on it: "never" bound, "live"  *)
(*             (bound and not removed since) or "removed" (removed and not *)
(*             bound since)                                                *)
(*   was       life as it was before the latest step                       *)
(*   registration  a WakerRegistration taken alone                         *)
(*   log       the calls made on registration:                             *)
(*               call      the latest call: "new", "register" or "wake"    *)
(*               arg       the handle passed to it, if any                 *)
(*               before    the slot before it                              *)
(*               woken     the handles it woke                             *)
(*               pending   the handles registered between the wake before  *)
(*                         the latest call and the latest call             *)
(*               registers the number of register calls                    *)
(*               wakes     the number of wakes delivered                   *)

Init ==
    /\ port_map = VsockMap_new
    /\ old = VsockMap_new
    /\ driver \in BOOLEAN
    /\ task = "Pending"
    /\ rx = None
    /\ tx = <<>>
    /\ woken = <<>>
    /\ ret = [op |-> "init", port |-> 0, res |-> "()"]
    /\ locks = <<>>
    /\ life = [p \in Ports |-> "never"]
    /\ was = [p \in Ports |-> "never"]
    /\ registration = [waker |-> WakerRegistration_new]
    /\ log = [call |-> "new", arg |-> None, before |-> None, woken |-> <<>>,
              pending |-> <<>>, registers |-> 0, wakes |-> 0]

\* A kernel panic stops every context, not only the pump.
Running == task # "Panicked"

\* A step that runs no poll hands over no packet, sends and wakes nothing.
NoTraffic ==
    /\ old' = port_map
    /\ was' = life
    /\ rx' = None
    /\ tx' = <<>>
    /\ woken' = <<>>

\* VSOCK_MAP.lock().bind(port)
Bind(port) ==
    /\ Running
    /\ LET r == bind(port_map, port)
       IN  /\ port_map' = r.map
           /\ ret' = [op |-> "bind", port |-> port, res |-> r.res]
    /\ life' = [life EXCEPT ![port] = "live"]
    /\ NoTraffic
    /\ locks' = map_events
    /\ UNCHANGED <<driver, task, registration, log>>

\* VSOCK_MAP.lock().remove_socket(port)
Remove(port) ==
    /\ Running
    /\ port_map' = remove_socket(port_map, port)
    /\ ret' = [op |-> "remove_socket", port |-> port, res |-> "()"]
    /\ life' = [life EXCEPT ![port] = IF @ = "live" THEN "removed" ELSE @]
    /\ NoTraffic
    /\ locks' = map_events
    /\ UNCHANGED <<driver, task, registration, log>>

\* The socket layer registers the waker of task w on the socket at port.
Register(port, w) ==
    /\ Running
    /\ get_mut_socket(port_map, port) # None
    /\ port_map' = [port_map EXCEPT ![port].waker = register(@, w)]
    /\ ret' = [op |-> "register", port |-> port, res |-> "()"]
    /\ life' = life
    /\ NoTraffic
    /\ locks' = map_events
    /\ UNCHANGED <<driver, task, registration, log>>

\* The socket layer changes the state of the socket at port.
SetState(port, state) ==
    /\ Running
    /\ get_mut_socket(port_map, port) # None
    /\ port_map[port].state # state
    /\ port_map' = [port_map EXCEPT ![port].state = state]
    /\ ret' = [op |-> "set_state", port |-> port, res |-> "()"]
    /\ life' = life
    /\ NoTraffic
    /\ locks' = map_events
    /\ UNCHANGED <<driver, task, registration, log>>

\* The socket layer drains the first n buffered bytes of the socket at port.
Drain(port, n) ==
    /\ Running
    /\ get_mut_socket(port_map, port) # None
    /\ n \in 1 .. Len(port_map[port].buffer)
    /\ port_map' = [port_map EXCEPT
                      ![port].buffer = SubSeq(@, n + 1, Len(@))]
    /\ ret' = [op |-> "drain", port |-> port, res |-> "()"]
    /\ life' = life
    /\ NoTraffic
    /\ locks' = map_events
    /\ UNCHANGED <<driver, task, registration, log>>

\* One poll of vsock_run in which the driver hands pkt to the callback
\* (lines 89-152).  The buffers of the model hold at most max bytes.
Poll(pkt, max) ==
    /\ task = "Pending"
    /\ driver
    /\ LET r == callback(port_map, pkt.header, pkt.data)
       IN  /\ \A q \in DOMAIN r.map : Len(r.map[q].buffer) <= max
           /\ port_map' = r.map
           /\ old' = port_map
           /\ was' = life
           /\ woken' = r.woken
           /\ rx' = Some(pkt)
           /\ locks' = poll_events(r)
           /\ IF r.panic
              THEN /\ tx' = <<>>
                   /\ task' = "Panicked"
                   /\ ret' = [op |-> "poll", port |-> 0, res |-> "panic"]
              ELSE /\ tx' = send_reply(r.hdr, r.fwd_cnt)
                   /\ task' = "Pending"
                   /\ ret' = [op |-> "poll", port |-> 0, res |-> "Pending"]
    /\ UNCHANGED <<driver, registration, log, life>>

\* One poll in which the driver has no packet queued: the callback is not
\* invoked, hdr stays None, nothing is sent.
PollIdle ==
    /\ task = "Pending"
    /\ driver
    /\ ret' = [op |-> "poll", port |-> 0, res |-> "Pending"]
    /\ NoTraffic
    /\ locks' = <<"driver.lock", "driver.unlock">>
    /\ UNCHANGED <<port_map, driver, task, registration, log, life>>

\* One poll with no driver attached (lines 153-155): the task completes.
PollNoDriver ==
    /\ task = "Pending"
    /\ ~driver
    /\ task' = "Ready"
    /\ ret' = [op |-> "poll", port |-> 0, res |-> "Ready"]
    /\ NoTraffic
    /\ locks' = <<>>
    /\ UNCHANGED <<port_map, driver, registration, log, life>>

\* One socket, on port 1234; packets for that port, with every code.
Next ==
    \/ Bind(1234)
    \/ Remove(1234)
    \/ \E w \in Wakers : Register(1234, w)
    \/ \E state \in VsockState : SetState(1234, state)
    \/ \E n \in 1 .. MaxBuf : Drain(1234, n)
    \/ \E pkt \in Packets : Poll(pkt, MaxBuf)
    \/ PollIdle
    \/ PollNoDriver

Spec == Init /\ [][Next]_vars

\* Sockets on both ports; stream packets of one peer.
NextMap ==
    \/ \E port \in Ports : Bind(port)
    \/ \E port \in Ports : Remove(port)
    \/ \E port \in Ports : Register(port, 1)
    \/ \E port \in Ports : SetState(port, "Connected")
    \/ \E port \in Ports : \E n \in 1 .. MaxBufMap : Drain(port, n)
    \/ \E pkt \in PacketsMap : Poll(pkt, MaxBufMap)
    \/ PollIdle
    \/ PollNoDriver

SpecMap == Init /\ [][NextMap]_vars

\* registration.register(h), by a task holding handle h.
NotifierRegister(h) ==
    /\ log.registers < MaxCalls
    /\ registration' = [registration EXCEPT !.waker = register(@, h)]
    /\ log' = [call      |-> "register",
               arg       |-> Some(h),
               before    |-> registration.waker,
               woken     |-> <<>>,
               pending   |-> IF log.call = "wake"
                             THEN <<h>>
                             ELSE Append(log.pending, h),
               registers |-> log.registers + 1,
               wakes     |-> log.wakes]
    /\ UNCHANGED <<port_map, old, driver, task, rx, tx, woken, ret, locks,
                   life, was>>

\* registration.wake()
NotifierWake ==
    /\ LET r == wake(registration.waker)
       IN  /\ registration' = [registration EXCEPT !.waker = r.waker]
           /\ log' = [call      |-> "wake",
                      arg       |-> None,
                      before    |-> registration.waker,
                      woken     |-> r.woken,
                      pending   |-> IF log.call = "wake"
                                    THEN <<>>
                                    ELSE log.pending,
                      registers |-> log.registers,
                      wakes     |-> log.wakes + Len(r.woken)]
    /\ UNCHANGED <<port_map, old, driver, task, rx, tx, woken, ret, locks,
                   life, was>>

\* A WakerRegistration taken alone: register and wake in any order.
NextNotifier ==
    \/ \E h \in Handles : NotifierRegister(h)
    \/ NotifierWake

SpecNotifier == Init /\ [][NextNotifier]_vars

----------------------------------------------------------------------------
(* Vocabulary of the properties.  Every step records the map before it     *)
(* (old), the packet it handled (rx), the replies it sent (tx), the wakers *)
(* it woke (woken) and the call it made (ret).                             *)

\* The latest step was a poll that handed a packet to the callback.
Handled == ret.op = "poll" /\ rx # None

\* Header and payload of the packet the latest poll handled.
InHdr == rx[1].header

InData == rx[1].data

\* The decoded operation of the handled packet is op, and its type decodes.
InOp(op) ==
    /\ Op_try_from(InHdr.op) = Some(op)
    /\ Type_try_from(InHdr.type_) # None

InStream == Type_try_from(InHdr.type_) = Some("Stream")

\* The destination port of the handled packet was bound before the poll.
WasBound == InHdr.dst_port \in DOMAIN old

\* The socket at the destination port before and after the poll.
Before == old[InHdr.dst_port]

After == port_map[InHdr.dst_port]

\* The reply r goes back to the sender of the handled packet.
Swapped(r) ==
    /\ r.src_cid = InHdr.dst_cid
    /\ r.dst_cid = InHdr.src_cid
    /\ r.src_port = InHdr.dst_port
    /\ r.dst_port = InHdr.src_port

----------------------------------------------------------------------------
\* C1: bind(p) on a port that is already bound returns AddressInUse and
\* leaves the map as it was: the socket at p (state, remote identity, buffer,
\* waker) and every other entry are unchanged.
C1_BindBoundPort ==
    \A p \in Ports :
        (ret.op = "bind" /\ ret.port = p /\ p \in DOMAIN old)
        => /\ ret.res = "EADDRINUSE"
           /\ DOMAIN port_map = DOMAIN old
           /\ \A q \in DOMAIN old : port_map[q] = old[q]

\* A second bind of 1234 while it holds a connected socket with buffered
\* bytes and a registered waker, and 1235 is bound too.
C1_Witness ==
    /\ ret.op = "bind" /\ ret.port = 1234
    /\ DOMAIN old = {1234, 1235}
    /\ old[1234].state = "Connected"
    /\ old[1234].buffer # <<>>
    /\ old[1234].waker # None
    /\ old[1234].remote_cid = 2
    /\ old[1235].state = "ReceiveRequest"

\* C2: a Request of type Stream for a port bound to a Listen socket moves
\* the socket to ReceiveRequest, records the sender's context id and port,
\* wakes the registered waker and empties the slot, and sends no reply.
C2_RequestAccepted ==
    (Handled /\ InOp("Request") /\ InStream /\ WasBound /\ Before.state = "Listen")
    => /\ After.state = "ReceiveRequest"
       /\ After.remote_cid = InHdr.src_cid
       /\ After.remote_port = InHdr.src_port
       /\ woken = Before.waker
       /\ After.waker = None
       /\ After.buffer = Before.buffer
       /\ tx = <<>>
       /\ task = "Pending"

\* A Request of peer (7, 6) accepted on a Listen socket whose waker was
\* registered by task 1.
C2_Witness ==
    /\ Handled /\ InOp("Request") /\ InStream /\ WasBound
    /\ Before.state = "Listen"
    /\ Before.waker = Some(1)
    /\ InHdr.src_cid = 7 /\ InHdr.src_port = 6
    /\ After.state = "ReceiveRequest"
    /\ woken = <<1>>

\* C3: an Rw packet of type Stream for a Connected or Shutdown socket
\* appends its payload to the end of the buffer, wakes the registered waker,
\* leaves state and remote identity alone and sends no reply.
C3_DataAppended ==
    (Handled /\ InOp("Rw") /\ InStream /\ WasBound
        /\ Before.state \in {"Connected", "Shutdown"})
    => /\ After.buffer = Before.buffer \o InData
       /\ After.state = Before.state
       /\ After.remote_cid = Before.remote_cid
       /\ After.remote_port = Before.remote_port
       /\ woken = Before.waker
       /\ After.waker = None
       /\ tx = <<>>
       /\ task = "Pending"

\* "CD" delivered to a Connected socket that holds "AB": the buffer is "ABCD".
C3_Witness ==
    /\ Handled /\ InOp("Rw") /\ InStream /\ WasBound
    /\ Before.state = "Connected"
    /\ Before.buffer = <<65, 66>>
    /\ InData = <<67, 68>>
    /\ After.buffer = <<65, 66, 67, 68>>
    /\ woken = <<2>>

\* C4: a Shutdown packet for a bound port puts the socket in state Shutdown,
\* whatever its state was and whatever the (decodable) type of the packet.
C4_ShutdownAlways ==
    (Handled /\ InOp("Shutdown") /\ WasBound)
    => /\ After.state = "Shutdown"
       /\ tx = <<>>

\* A Shutdown of type Stream reaches a Connected socket, the case the data
\* rule is nearest to.
C4_Witness ==
    /\ Handled /\ InOp("Shutdown") /\ InStream /\ WasBound
    /\ Before.state = "Connected"
    /\ After.state = "Shutdown"

\* C5: a CreditRequest for a port with no socket is answered by a
\* CreditUpdate with forward count zero and swapped addresses.
C5_UnboundCreditRequest ==
    (Handled /\ InOp("CreditRequest") /\ ~WasBound)
    => /\ Len(tx) = 1
       /\ Op_try_from(tx[1].op) = Some("CreditUpdate")
       /\ tx[1].fwd_cnt = 0
       /\ Swapped(tx[1])

\* C6: a Request, Response, Rw or Rst for a port with no socket leaves the
\* map as it was and is answered by a Rst with forward count zero and
\* swapped addresses.
C6_UnboundReset ==
    (Handled /\ ~WasBound
        /\ \E op \in {"Request", "Response", "Rw", "Rst"} : InOp(op))
    => /\ port_map = old
       /\ Len(tx) = 1
       /\ Op_try_from(tx[1].op) = Some("Rst")
       /\ tx[1].fwd_cnt = 0
       /\ Swapped(tx[1])

\* The handled packet matches none of the four rules of the dispatch.
NoRule ==
    /\ ~(InOp("Request") /\ InStream /\ Before.state = "Listen")
    /\ ~(InOp("Rw") /\ InStream /\ Before.state \in {"Connected", "Shutdown"})
    /\ ~InOp("CreditUpdate")
    /\ ~InOp("Shutdown")

\* C7: a packet for a bound port that matches no rule and is no
\* CreditRequest is answered by exactly one reply: a Rst with forward count
\* zero and swapped addresses.
C7_BoundReset ==
    (Handled /\ WasBound /\ NoRule /\ ~InOp("CreditRequest")
        /\ \E op \in {"Request", "Response", "Rw", "Rst"} : InOp(op))
    => /\ Len(tx) = 1
       /\ Op_try_from(tx[1].op) = Some("Rst")
       /\ tx[1].fwd_cnt = 0
       /\ Swapped(tx[1])

\* An Rw packet with a payload reaches a Listen socket that holds bytes.
C7_Witness ==
    /\ Handled /\ WasBound /\ InOp("Rw") /\ InStream
    /\ Before.state = "Listen"
    /\ Before.buffer # <<>>
    /\ InData # <<>>
    /\ Len(tx) = 1

\* C8: a CreditRequest for a bound port, in any state, is answered by a
\* CreditUpdate whose forward count is the number of bytes in the socket's
\* buffer, with swapped addresses; the socket is not changed.
C8_CreditRequest ==
    (Handled /\ InOp("CreditRequest") /\ WasBound)
    => /\ Len(tx) = 1
       /\ Op_try_from(tx[1].op) = Some("CreditUpdate")
       /\ tx[1].fwd_cnt = Len(Before.buffer)
       /\ Swapped(tx[1])
       /\ port_map = old

\* A CreditRequest reaches a socket that holds three bytes: four were
\* appended and one was drained.
C8_Witness ==
    /\ Handled /\ InOp("CreditRequest") /\ WasBound
    /\ Len(Before.buffer) = 3
    /\ Before.state = "Connected"
    /\ Len(tx) = 1
    /\ tx[1].fwd_cnt = 3

\* C9: every reply has length zero, buf_alloc 262144, the addresses of the
\* packet that caused it swapped, and operation CreditUpdate or Rst; a poll
\* sends at most one.
C9_ReplyShape ==
    tx # <<>>
    => /\ Len(tx) = 1
       /\ Handled
       /\ tx[1].len = 0
       /\ tx[1].buf_alloc = 262144
       /\ Swapped(tx[1])
       /\ Op_try_from(tx[1].op) \in {Some("CreditUpdate"), Some("Rst")}

\* A reply to a packet that carried a payload, from a socket that holds bytes.
C9_Witness ==
    /\ tx # <<>>
    /\ Handled /\ WasBound
    /\ InHdr.len = 2
    /\ Len(Before.buffer) = 4
    /\ tx[1].buf_alloc = 262144

\* C10: every poll that hands a packet to the callback, whatever its
\* operation and type codes, ends normally and leaves the task pending.
C10_NoPacketHalts ==
    Handled => (ret.res = "Pending" /\ task = "Pending")

\* C11: the task completes only when no driver is attached, and every poll
\* with a driver attached ends by returning Pending and leaves the task
\* pending.
C11_PendingWhileDriver ==
    /\ task = "Ready" => ~driver
    /\ (ret.op = "poll" /\ driver) => (ret.res = "Pending" /\ task = "Pending")

\* Whether lock l is held after the first i events of the latest step.
HeldAfter(l, i) ==
    Cardinality({j \in 1 .. i : locks[j] = l \o ".lock"})
        > Cardinality({j \in 1 .. i : locks[j] = l \o ".unlock"})

\* C12: in every poll the map is locked only while the driver is held, the
\* reply is sent with the driver held and the map released, and no lock is
\* held once the step is over, so the map is free whenever the task is
\* suspended.
C12_LockDiscipline ==
    /\ \A i \in 1 .. Len(locks) :
          /\ (ret.op = "poll" /\ locks[i] = "map.lock")
                => HeldAfter("driver", i - 1)
          /\ locks[i] = "send_packet"
                => (HeldAfter("driver", i - 1) /\ ~HeldAfter("map", i - 1))
    /\ Running
          => (~HeldAfter("driver", Len(locks)) /\ ~HeldAfter("map", Len(locks)))
    /\ (Handled /\ Running) => (\E i \in 1 .. Len(locks) : locks[i] = "map.lock")
    /\ tx # <<>> <=> (\E i \in 1 .. Len(locks) : locks[i] = "send_packet")

\* A poll that sent a reply: driver locked, map locked and released, reply
\* sent, driver released.
C12_Witness ==
    /\ Handled /\ tx # <<>>
    /\ locks = <<"driver.lock", "map.lock", "map.unlock", "send_packet",
                 "driver.unlock">>

C13_WitnessLatest ==
    /\ log.call = "wake"
    /\ log.pending = <<1, 2>>
    /\ log.woken = <<2>>

\* C14: wake on a stored handle wakes exactly that handle and empties the
\* slot; wake on an empty slot wakes nothing and changes nothing.  The wakes
\* delivered never outnumber the register calls, and a wake that follows a
\* wake with no register in between delivers none.
C14_WakeOnce ==
    /\ log.call = "wake"
          => /\ log.woken = log.before
             /\ Len(log.woken) <= 1
             /\ registration.waker = None
    /\ log.wakes <= log.registers
    /\ (log.call = "wake" /\ log.pending = <<>>) => log.woken = <<>>

\* A second wake in a row, after a register and a wake that delivered: it
\* wakes nothing.
C14_Witness ==
    /\ log.call = "wake"
    /\ log.pending = <<>>
    /\ log.before = None
    /\ log.woken = <<>>
    /\ log.registers = 2
    /\ log.wakes = 2

\* C15: a port has a socket in the map iff it was bound and not removed
\* since; a poll never adds or deletes an entry; remove_socket of an absent
\* port changes nothing; bind of a port that was removed succeeds and yields
\* a fresh Listen socket with an empty buffer.
C15_BoundIffInMap ==
    /\ \A p \in Ports : p \in DOMAIN port_map <=> life[p] = "live"
    /\ ret.op = "poll" => DOMAIN port_map = DOMAIN old
    /\ (ret.op = "remove_socket" /\ ret.port \notin DOMAIN old) => port_map = old
    /\ (ret.op = "bind" /\ was[ret.port] = "removed")
          => /\ ret.res = "Ok"
             /\ port_map[ret.port] = RawSocket_new("Listen")
             /\ port_map[ret.port].buffer = <<>>
             /\ port_map[ret.port].state = "Listen"

\* 1234 is bound again after its removal, while 1235 holds a socket that
\* went through a Shutdown.
C15_Witness ==
    /\ ret.op = "bind" /\ ret.port = 1234
    /\ was[1234] = "removed"
    /\ ret.res = "Ok"
    /\ port_map[1234].state = "Listen"
    /\ 1235 \in DOMAIN port_map
    /\ port_map[1235].state = "Shutdown"

\* The port the latest step was about, if it was a packet, a bind or a
\* remove_socket.
Target ==
    IF Handled THEN {InHdr.dst_port}
    ELSE IF ret.op \in {"bind", "remove_socket"} THEN {ret.port}
    ELSE {}

\* C16: bind succeeds on a free port whatever the other port holds, and a
\* packet for p, bind(p) and remove_socket(p) leave the socket of every
\* other port q as it was.
C16_PortsIndependent ==
    /\ \A p \in Target : \A q \in Ports \ {p} :
          /\ q \in DOMAIN port_map <=> q \in DOMAIN old
          /\ q \in DOMAIN old => port_map[q] = old[q]
    /\ (ret.op = "bind" /\ ret.port \notin DOMAIN old)
          => (ret.res = "Ok" /\ ret.port \in DOMAIN port_map)

\* A Request for 1235 is accepted while 1234 holds a connected socket with
\* a buffered byte, a waker and a recorded peer.
C16_Witness ==
    /\ Handled /\ InOp("Request") /\ InHdr.dst_port = 1235
    /\ DOMAIN old = {1234, 1235}
    /\ port_map[1235].state = "ReceiveRequest"
    /\ old[1235].state = "Listen"
    /\ old[1234].state = "Connected"
    /\ old[1234].buffer = <<65>>
    /\ old[1234].waker = Some(1)
    /\ old[1234].remote_cid = 2

\* C17: a CreditUpdate for a bound port, in any state and with any
\* (decodable) type, changes nothing: the socket is as it was, no waker is
\* woken, no reply is sent.
C17_CreditUpdateIgnored ==
    (Handled /\ InOp("CreditUpdate") /\ WasBound)
    => /\ port_map = old
       /\ woken = <<>>
       /\ tx = <<>>
       /\ task = "Pending"

\* A CreditUpdate of type Stream reaches a Connected socket that holds bytes
\* and a registered waker.
C17_Witness ==
    /\ Handled /\ InOp("CreditUpdate") /\ InStream /\ WasBound
    /\ Before.state = "Connected"
    /\ Before.waker = Some(1)
    /\ Before.buffer = <<65, 66>>
    /\ After.waker = Some(1)
    /\ tx = <<>>

\* C18: a poll changes the state of a socket only from Listen to
\* ReceiveRequest (an accepted Request) or to Shutdown (a Shutdown packet);
\* it never leaves Shutdown.
C18_PumpTransitions ==
    (Handled /\ WasBound)
    => /\ After.state # Before.state
            => \/ /\ Before.state = "Listen"
                  /\ After.state = "ReceiveRequest"
                  /\ InOp("Request") /\ InStream
               \/ /\ After.state = "Shutdown"
                  /\ InOp("Shutdown")
       /\ Before.state = "Shutdown" => After.state = "Shutdown"
       /\ After.state \in {"Connected", "Connecting", "Listen"}
            => After.state = Before.state

\* A Request of type Stream reaches a socket in state Shutdown and leaves
\* it there.
C18_Witness ==
    /\ Handled /\ InOp("Request") /\ InStream /\ WasBound
    /\ Before.state = "Shutdown"
    /\ After.state = "Shutdown"

C20_ShutdownFrame ==
    (Handled /\ InOp("Shutdown") /\ WasBound)
    => /\ port_map = [old EXCEPT ![InHdr.dst_port].state = "Shutdown"]
       /\ After.waker = Before.waker
       /\ After.buffer = Before.buffer
       /\ woken = <<>>
       /\ tx = <<>>

\* A Shutdown reaches a Connected socket on which task 1 waits for data: the
\* waker stays in the slot, un-woken.
C20_Witness ==
    /\ Handled /\ InOp("Shutdown") /\ WasBound
    /\ Before.state = "Connected"
    /\ Before.waker = Some(1)
    /\ Before.buffer = <<65, 66>>
    /\ After.state = "Shutdown"
    /\ After.waker = Some(1)
    /\ woken = <<>>

====
